---- MODULE Spec2Model ----
(***************************************************************************)
(* Shareable-link service: link creation with retry on uniqueness          *)
(* conflicts, redirect with fraud check and click recording, and paginated *)
(* click statistics.  Every request runs in its own execution context with *)
(* its own database session; the only shared state is the database.        *)
(***************************************************************************)
EXTENDS Integers, Sequences, FiniteSets, TLC

(* ------------------------------ bounds --------------------------------- *)

\* POST /links requests served in one behaviour, each in its own context
NumCreators == 2
\* GET /{short_code} requests served in one behaviour
NumVisitors == 2
\* distinct target URLs submitted by clients
NumUrls == 2
\* distinct outcomes of the random code generator that are explored
NumCodes == 2
\* how far the wall clock advances
MaxTick == 1
\* largest page number requested
MaxPage == 2
\* largest small limit requested
MaxLimit == 2
\* links already stored when a seeded behaviour starts
MaxSeed == 2

(* ------------------------- program constants --------------------------- *)

\* services.py: EARNINGS_PER_CLICK = 0.05, held in thousandths
EARNINGS_PER_CLICK == 50
\* services.py: max_attempts = 10
max_attempts == 10
\* utils.py: generate_short_code(length = 6)
length == 6
\* services.py: limit > 100 -> 100
LimitCap == 100
\* main.py: status codes of the three endpoints
HTTP_CREATED == 201
HTTP_OK == 200
HTTP_FOUND == 302
HTTP_FORBIDDEN == 403
HTTP_NOT_FOUND == 404
HTTP_UNPROCESSABLE == 422
HTTP_SERVER_ERROR == 500

\* Each request is served in a context of its own, named by the kind of
\* request and a number.
Creators == { << "create", i >> : i \in 1..NumCreators }
Visitors == { << "redirect", i >> : i \in 1..NumVisitors }
\* get_stats writes nothing, so one GET /stats request stands for any number
Readers == { << "stats", 1 >> }
\* the GET /stats requests of a client that reads the statistics page by
\* page: the i-th asks for page i, and there are pages enough for every
\* seeded link
Walkers == { << "stats", i >> : i \in 1..MaxSeed }
Procs == Creators \cup Visitors \cup Readers \cup Walkers

Min(a, b) == IF a < b THEN a ELSE b
Max(a, b) == IF a > b THEN a ELSE b

(* ------------------------------ utils.py ------------------------------- *)

\* string.ascii_lowercase + string.digits
characters ==
    << "a", "b", "c", "d", "e", "f", "g", "h", "i", "j", "k", "l", "m",
       "n", "o", "p", "q", "r", "s", "t", "u", "v", "w", "x", "y", "z",
       "0", "1", "2", "3", "4", "5", "6", "7", "8", "9" >>

\* The outcomes of the `length` calls of random.choice that are explored:
\* each is a sequence of indices into characters.
Draw(k) == [i \in 1..length |-> ((7 * k + 5 * i) % Len(characters)) + 1]
RandomDraws == { Draw(k) : k \in 1..NumCodes }

\* "".join(random.choice(characters) for _ in range(length))
\* (faulty variant: one character short)
generate_short_code_MutShort(draws) ==
    [i \in 1..(Len(draws) - 1) |-> characters[draws[i]]]
generate_short_code(draws) == [i \in 1..Len(draws) |-> characters[draws[i]]]

\* simulate_fraud_check: sleeps, then returns True
simulate_fraud_check == TRUE

(* ------------------------------ requests ------------------------------- *)

PathNames == << "a", "b", "c", "d", "e", "f" >>

\* valid target URLs, as a scheme followed by the rest
Url(i) == << IF i % 2 = 1 THEN "https://" ELSE "http://", "fiverr.com/", PathNames[i] >>
TargetUrls == { Url(i) : i \in 1..NumUrls }

\* short codes a visitor may ask for: the generator's, and one no link has
UnknownCode == [i \in 1..length |-> "z"]
RequestCodes == { generate_short_code(d) : d \in RandomDraws } \cup { UnknownCode }

\* target_url values of request bodies that are not valid URLs, or are
\* valid ones with white space around them
RawUrls ==
    { << >>, << " " >>, << " ", " " >>, << "not-a-url" >>,
      << "ftp://", "fiverr.com/", PathNames[1] >>,
      << " " >> \o Url(1), Url(1) \o << " " >> }

\* JSON bodies of POST /links: without a target_url, or with one
NoBody == [present |-> FALSE, target_url |-> << >>]
RequestBodies ==
    { NoBody } \cup { [present |-> TRUE, target_url |-> v] : v \in RawUrls \cup TargetUrls }

PageInputs == 0..MaxPage
LimitInputs == (1..MaxLimit) \cup { LimitCap + 1 }

\* integers that no validation has filtered, zero and negative values too:
\* query parameters of GET /stats and arguments of direct calls of get_stats
DirectPages == (0 - 1)..MaxPage
DirectLimits == ((0 - 1)..MaxLimit) \cup { LimitCap, LimitCap + 1 }

(* ------------------------------- clock --------------------------------- *)

\* Timestamps count TicksPerMonth ticks a month from year 0; with one tick a
\* month the clock starts in December 2024.
TicksPerMonth == 1
StartTime == 24299

VARIABLES
    links,      \* rows of table links
    clicks,     \* rows of table clicks
    now,        \* datetime.now(timezone.utc)
    pc,         \* where each request context stands
    req,        \* the request a context is serving
    loc,        \* the local variables of the handler and the service call
    resp        \* the response a context sent last

vars == << links, clicks, now, pc, req, loc, resp >>

(* ----------------------------- schemas.py ------------------------------ *)

\* v.strip(): v without the white space at its ends
RECURSIVE strip(_)
strip(v) ==
    IF v = << >> THEN v
    ELSE IF Head(v) = " " THEN strip(Tail(v))
    ELSE IF v[Len(v)] = " " THEN strip(SubSeq(v, 1, Len(v) - 1))
    ELSE v

\* v.startswith(("http://", "https://"))
startswith(v) == v # << >> /\ v[1] \in { "http://", "https://" }

\* LinkCreate: target_url is required, and validate_url raises ValueError
\* for an empty or blank value and for one that does not start with a scheme
\* (faulty variant: the scheme is not checked)
ValidationErrorMutAnyScheme(body) ==
    \/ ~body.present
    \/ body.target_url = << >> \/ strip(body.target_url) = << >>
ValidationError(body) ==
    \/ ~body.present
    \/ body.target_url = << >> \/ strip(body.target_url) = << >>
    \/ ~startswith(body.target_url)

\* validate_url: return v.strip()
validate_url(v) == strip(v)

(* ------------------------------ models.py ------------------------------ *)

NoUrl == << >>
NoCode == << >>
NoLink == [id |-> 0, short_code |-> NoCode, target_url |-> NoUrl, created_at |-> 0]

\* Link(short_code, target_url) with its column defaults: id = uuid4(), a
\* fresh opaque id, and created_at = the time of the insert
Link(store, short_code, target_url, t) ==
    [id |-> Cardinality(store) + 1, short_code |-> short_code,
     target_url |-> target_url, created_at |-> t]

\* Click(link_id) with its column defaults: id = uuid4(), a fresh opaque id
\* (here the link and the number of the click among the link's), and
\* clicked_at = the time of the insert
Click(store, link_id, t) ==
    [id |-> << link_id, Cardinality({ c \in store : c.link_id = link_id }) + 1 >>,
     link_id |-> link_id, clicked_at |-> t]

\* The constraints of table links that make an INSERT raise IntegrityError:
\* primary key id, unique short_code, unique target_url.
\* faulty variants: one of the unique constraints is missing
LinkMutNoUrlConstraint(store, row) ==
    \E l \in store : l.id = row.id \/ l.short_code = row.short_code
LinkMutNoCodeConstraint(store, row) ==
    \E l \in store : l.id = row.id \/ l.target_url = row.target_url
LinkIntegrityError(store, row) ==
    \E l \in store :
        \/ l.id = row.id
        \/ l.short_code = row.short_code
        \/ l.target_url = row.target_url

\* The constraint of table clicks: link_id references links.id
ClickIntegrityError(store, row) == \A l \in store : l.id # row.link_id

(* ----------------------------- services.py ----------------------------- *)

\* db.query(Link).filter(Link.target_url == target_url): the matching rows
\* (faulty variant: the pre-check finds nothing)
LinksByUrlMutNone(target_url) == {}
LinksByUrl(target_url) == { l \in links : l.target_url = target_url }

\* db.query(Link).filter(Link.short_code == short_code): the matching rows
\* (faulty variant: the filter is missing)
LinksByCodeMutAny(short_code) == links
get_link_by_short_code(short_code) == { l \in links : l.short_code = short_code }

\* record_click: the table clicks after the commit
\* (faulty variant: the click is inserted twice)
record_click_MutTwice(link_id) ==
    LET once == clicks \cup { Click(clicks, link_id, now) }
    IN  once \cup { Click(once, link_id, now) }
record_click(link_id) == clicks \cup { Click(clicks, link_id, now) }

\* page < 1 -> 1
\* (faulty variant: the page is not clamped)
ClampPageMutNone(page) == page
ClampPage(page) == IF page < 1 THEN 1 ELSE page

\* limit > 100 -> 100
ClampLimit(limit) == IF limit > LimitCap THEN LimitCap ELSE limit

\* offset = (page - 1) * limit
\* (faulty variant: pages counted from 0)
PageOffsetMutNextPage(page, limit) == page * limit
PageOffset(page, limit) == (page - 1) * limit

\* The orders in which ORDER BY created_at DESC may return the rows: rows
\* with equal created_at come in any order.
OrderedByCreatedAtDesc(store) ==
    { seq \in [1..Cardinality(store) -> store] :
        /\ \A i, j \in 1..Cardinality(store) : i # j => seq[i] # seq[j]
        /\ \A i, j \in 1..Cardinality(store) : i < j => seq[i].created_at >= seq[j].created_at }

\* .offset(offset).limit(limit) of an ordered result
OffsetLimit(seq, offset, limit) ==
    [i \in 1..Max(0, Min(limit, Len(seq) - offset)) |-> seq[offset + i]]

\* db.query(Click).filter(Click.link_id == link.id).count()
\* (faulty variant: the filter is missing)
CountClicksMutNoFilter(link_id) == Cardinality(clicks)
CountClicks(link_id) == Cardinality({ c \in clicks : c.link_id = link_id })

\* the decimal digit d as a character
Digit(d) == characters[Len(characters) - 9 + d]

\* to_char(clicked_at, 'YYYY-MM')
to_char(t) ==
    LET year == t \div (12 * TicksPerMonth)
        month == ((t \div TicksPerMonth) % 12) + 1
    IN  << Digit((year \div 1000) % 10), Digit((year \div 100) % 10),
           Digit((year \div 10) % 10), Digit(year % 10), "-",
           Digit(month \div 10), Digit(month % 10) >>

\* the order of characters in a month string: '-' before the digits
CharRank(c) == IF c = "-" THEN 0 ELSE CHOOSE d \in 1..10 : Digit(d - 1) = c

\* a < b for strings of equal length
StrLess(a, b) ==
    \E i \in 1..Len(a) :
        /\ CharRank(a[i]) < CharRank(b[i])
        /\ \A j \in 1..(i - 1) : a[j] = b[j]

\* ORDER BY month
RECURSIVE OrderByMonth(_)
OrderByMonth(months) ==
    IF months = {} THEN << >>
    ELSE LET first == CHOOSE m \in months : \A o \in months : ~StrLess(o, m)
         IN  << first >> \o OrderByMonth(months \ { first })

\* the monthly query: clicks of the link grouped by month, counted, ordered
MonthlyData(link_id) ==
    LET mine == { c \in clicks : c.link_id = link_id }
        months == OrderByMonth({ to_char(c.clicked_at) : c \in mine })
    IN  [i \in 1..Len(months) |->
            [month |-> months[i],
             clicks |-> Cardinality({ c \in mine : to_char(c.clicked_at) = months[i] })]]

\* round(x, 2) of x thousandths, in hundredths (ties to even)
Round2(x) ==
    LET q == x \div 10
        r == x % 10
    IN  IF r > 5 \/ (r = 5 /\ q % 2 = 1) THEN q + 1 ELSE q

\* one element of links_stats; total_earnings in hundredths
LinkStats(link, total_clicks, monthly_data) ==
    [short_code |-> link.short_code,
     target_url |-> link.target_url,
     total_clicks |-> total_clicks,
     total_earnings |-> Round2(total_clicks * EARNINGS_PER_CLICK),
     monthly_breakdown |-> monthly_data]

(* ------------------------------- main.py ------------------------------- *)

NoStats == [page |-> 0, limit |-> 0, total_links |-> 0, links |-> << >>]
NoResp == [status |-> 0, link |-> NoLink, location |-> NoUrl, stats |-> NoStats]
NoReq == [body |-> NoBody, target_url |-> NoUrl, short_code |-> NoCode, page |-> 0, limit |-> 0]
NoLoc == [attempts |-> 0, link |-> NoLink, is_new |-> FALSE, is_valid |-> FALSE,
          page |-> 0, limit |-> 0, offset |-> 0, total_links |-> 0, rows |-> << >>,
          total_clicks |-> 0, links_stats |-> << >>]

\* post_link: 201 with the link for a new link, 200 for an existing one
\* (faulty variant: every answer is 201)
PostLinkResponseMutAlwaysCreated(link, is_new) ==
    [NoResp EXCEPT !.status = HTTP_CREATED, !.link = link]
PostLinkResponse(link, is_new) ==
    [NoResp EXCEPT !.status = IF is_new THEN HTTP_CREATED ELSE HTTP_OK, !.link = link]

\* an exception that leaves a handler is answered 500
ServerError == [NoResp EXCEPT !.status = HTTP_SERVER_ERROR]

\* raise HTTPException(status_code = ...)
HTTPException(status_code) == [NoResp EXCEPT !.status = status_code]

\* RedirectResponse(url = ..., status_code = 302)
RedirectResponse(url) == [NoResp EXCEPT !.status = HTTP_FOUND, !.location = url]

Init ==
    /\ links = {}
    /\ clicks = {}
    /\ now = StartTime
    /\ pc = [p \in Procs |-> "idle"]
    /\ req = [p \in Procs |-> NoReq]
    /\ loc = [p \in Procs |-> NoLoc]
    /\ resp = [p \in Procs |-> NoResp]

\* Tables of links left by n sequential POST /links requests, for Url(1) ..
\* Url(n), the k-th committed by create_link with the k-th explored code,
\* shortly before the clock's start.
RECURSIVE StoresAfter(_)
StoresAfter(n) ==
    IF n = 0 THEN { {} }
    ELSE UNION { { s \cup { Link(s, generate_short_code(Draw(n)), Url(n), t) } :
                     t \in { x \in (StartTime - 1)..StartTime :
                               /\ \A l \in s : l.created_at <= x
                               /\ ~LinkIntegrityError(s, Link(s, generate_short_code(Draw(n)), Url(n), x)) } }
                 : s \in StoresAfter(n - 1) }

\* a database that already holds some links, and no request in flight
InitSeeded ==
    /\ links \in UNION { StoresAfter(n) : n \in 0..MaxSeed }
    /\ clicks = {}
    /\ now = StartTime
    /\ pc = [p \in Procs |-> "idle"]
    /\ req = [p \in Procs |-> NoReq]
    /\ loc = [p \in Procs |-> NoLoc]
    /\ resp = [p \in Procs |-> NoResp]

\* a database that holds at most one link, and no request in flight
InitHistory ==
    /\ links \in StoresAfter(0) \cup StoresAfter(1)
    /\ clicks = {}
    /\ now = StartTime
    /\ pc = [p \in Procs |-> "idle"]
    /\ req = [p \in Procs |-> NoReq]
    /\ loc = [p \in Procs |-> NoLoc]
    /\ resp = [p \in Procs |-> NoResp]

\* the wall clock advances
Tick ==
    /\ now < StartTime + MaxTick
    /\ now' = now + 1
    /\ UNCHANGED << links, clicks, pc, req, loc, resp >>

(* --------------------------- POST /links ------------------------------- *)

\* A request arrives and create_link runs its existence pre-check:
\* an existing link is returned with is_new = False.
CreateLookupFor(p, body) ==
    LET u == validate_url(body.target_url) IN
    /\ pc[p] = "idle"
    /\ req' = [req EXCEPT ![p].body = body, ![p].target_url = u]
    /\ IF LinksByUrl(u) # {}
       THEN \E existing \in LinksByUrl(u) :
                /\ loc' = [loc EXCEPT ![p].link = existing, ![p].is_new = FALSE]
                /\ resp' = [resp EXCEPT ![p] = PostLinkResponse(existing, FALSE)]
                /\ pc' = [pc EXCEPT ![p] = "done"]
       ELSE /\ pc' = [pc EXCEPT ![p] = "c_insert"]
            /\ UNCHANGED << loc, resp >>
    /\ UNCHANGED << links, clicks, now >>

\* a request with a valid URL
CreateLookup(p) ==
    \E u \in TargetUrls : CreateLookupFor(p, [present |-> TRUE, target_url |-> u])

\* A request with any body arrives: a body that fails validation is answered
\* 422 before post_link runs.
PostLink(p) ==
    \E body \in RequestBodies :
        IF ValidationError(body)
        THEN /\ pc[p] = "idle"
             /\ req' = [req EXCEPT ![p].body = body]
             /\ resp' = [resp EXCEPT ![p] = HTTPException(HTTP_UNPROCESSABLE)]
             /\ pc' = [pc EXCEPT ![p] = "done"]
             /\ UNCHANGED << links, clicks, now, loc >>
        ELSE CreateLookupFor(p, body)

\* faulty variant: an insert that meets a conflict replaces the rows in its way
CreateAttemptMutUpsert(p) ==
    /\ pc[p] = "c_insert"
    /\ loc[p].attempts < max_attempts
    /\ \E draws \in RandomDraws :
        LET link == Link(links, generate_short_code(draws), req[p].target_url, now) IN
        /\ links' = { l \in links : l.short_code # link.short_code /\ l.target_url # link.target_url }
                        \cup { link }
        /\ loc' = [loc EXCEPT ![p].link = link, ![p].is_new = TRUE]
        /\ resp' = [resp EXCEPT ![p] = PostLinkResponse(link, TRUE)]
        /\ pc' = [pc EXCEPT ![p] = "done"]
    /\ UNCHANGED << clicks, now, req >>

\* faulty variant: the row of a failed attempt is not rolled back
CreateAttemptMutNoRollback(p) ==
    /\ pc[p] = "c_insert"
    /\ loc[p].attempts < max_attempts
    /\ \E draws \in RandomDraws :
        LET link == Link(links, generate_short_code(draws), req[p].target_url, now) IN
        IF LinkIntegrityError(links, link)
        THEN /\ links' = links \cup { link }
             /\ loc' = [loc EXCEPT ![p].attempts = @ + 1]
             /\ IF loc[p].attempts + 1 = max_attempts
                THEN /\ resp' = [resp EXCEPT ![p] = ServerError]
                     /\ pc' = [pc EXCEPT ![p] = "done"]
                ELSE UNCHANGED << resp, pc >>
        ELSE /\ links' = links \cup { link }
             /\ loc' = [loc EXCEPT ![p].link = link, ![p].is_new = TRUE]
             /\ resp' = [resp EXCEPT ![p] = PostLinkResponse(link, TRUE)]
             /\ pc' = [pc EXCEPT ![p] = "done"]
    /\ UNCHANGED << clicks, now, req >>

\* faulty variant: after max_attempts failures the call returns no link
\* instead of raising
CreateAttemptMutSwallowed(p) ==
    /\ pc[p] = "c_insert"
    /\ loc[p].attempts < max_attempts
    /\ \E draws \in RandomDraws :
        LET link == Link(links, generate_short_code(draws), req[p].target_url, now) IN
        IF LinkIntegrityError(links, link)
        THEN /\ links' = links
             /\ loc' = [loc EXCEPT ![p].attempts = @ + 1]
             /\ IF loc[p].attempts + 1 = max_attempts
                THEN /\ resp' = [resp EXCEPT ![p] = PostLinkResponse(NoLink, FALSE)]
                     /\ pc' = [pc EXCEPT ![p] = "done"]
                ELSE UNCHANGED << resp, pc >>
        ELSE /\ links' = links \cup { link }
             /\ loc' = [loc EXCEPT ![p].link = link, ![p].is_new = TRUE]
             /\ resp' = [resp EXCEPT ![p] = PostLinkResponse(link, TRUE)]
             /\ pc' = [pc EXCEPT ![p] = "done"]
    /\ UNCHANGED << clicks, now, req >>

\* One turn of the retry loop: generate a code, add the link, commit.  The
\* commit either inserts the row or raises IntegrityError, which is rolled
\* back; after max_attempts failures RuntimeError leaves the handler.
CreateAttempt(p) ==
    /\ pc[p] = "c_insert"
    /\ loc[p].attempts < max_attempts
    /\ \E draws \in RandomDraws :
        LET link == Link(links, generate_short_code(draws), req[p].target_url, now) IN
        IF LinkIntegrityError(links, link)
        THEN /\ links' = links
             /\ loc' = [loc EXCEPT ![p].attempts = @ + 1]
             /\ IF loc[p].attempts + 1 = max_attempts
                THEN /\ resp' = [resp EXCEPT ![p] = ServerError]
                     /\ pc' = [pc EXCEPT ![p] = "done"]
                ELSE UNCHANGED << resp, pc >>
        ELSE /\ links' = links \cup { link }
             /\ loc' = [loc EXCEPT ![p].link = link, ![p].is_new = TRUE]
             /\ resp' = [resp EXCEPT ![p] = PostLinkResponse(link, TRUE)]
             /\ pc' = [pc EXCEPT ![p] = "done"]
    /\ UNCHANGED << clicks, now, req >>

(* ------------------------- GET /{short_code} --------------------------- *)

\* faulty variant: the click is committed before the fraud check is awaited
RedirectLookupMutRecordFirst(p) ==
    /\ pc[p] = "idle"
    /\ \E code \in RequestCodes :
        /\ req' = [req EXCEPT ![p].short_code = code]
        /\ IF get_link_by_short_code(code) = {}
           THEN /\ resp' = [resp EXCEPT ![p] = HTTPException(HTTP_NOT_FOUND)]
                /\ pc' = [pc EXCEPT ![p] = "done"]
                /\ loc' = loc
                /\ clicks' = clicks
           ELSE \E link \in get_link_by_short_code(code) :
                    /\ loc' = [loc EXCEPT ![p].link = link]
                    /\ pc' = [pc EXCEPT ![p] = "r_fraud"]
                    /\ resp' = resp
                    /\ clicks' = record_click(link.id)
    /\ UNCHANGED << links, now >>

\* A request arrives and the handler looks the code up: 404 when no link has
\* it, otherwise the handler suspends in the fraud check.
RedirectLookup(p) ==
    /\ pc[p] = "idle"
    /\ \E code \in RequestCodes :
        /\ req' = [req EXCEPT ![p].short_code = code]
        /\ IF get_link_by_short_code(code) = {}
           THEN /\ resp' = [resp EXCEPT ![p] = HTTPException(HTTP_NOT_FOUND)]
                /\ pc' = [pc EXCEPT ![p] = "done"]
                /\ loc' = loc
           ELSE \E link \in get_link_by_short_code(code) :
                    /\ loc' = [loc EXCEPT ![p].link = link]
                    /\ pc' = [pc EXCEPT ![p] = "r_fraud"]
                    /\ resp' = resp
    /\ UNCHANGED << links, clicks, now >>

\* The awaited fraud check completes and the handler resumes: 403 when the
\* check failed; otherwise the click is committed and the visitor is
\* redirected to the link's target_url, which the session reloads by primary
\* key after the commit.
RedirectResume(p) ==
    /\ pc[p] = "r_fraud"
    /\ LET is_valid == simulate_fraud_check IN
       /\ loc' = [loc EXCEPT ![p].is_valid = is_valid]
       /\ IF ~is_valid
          THEN /\ resp' = [resp EXCEPT ![p] = HTTPException(HTTP_FORBIDDEN)]
               /\ clicks' = clicks
          ELSE IF ClickIntegrityError(links, Click(clicks, loc[p].link.id, now))
          THEN /\ resp' = [resp EXCEPT ![p] = ServerError]
               /\ clicks' = clicks
          ELSE /\ clicks' = record_click(loc[p].link.id)
               /\ \E link \in { l \in links : l.id = loc[p].link.id } :
                      resp' = [resp EXCEPT ![p] = RedirectResponse(link.target_url)]
    /\ pc' = [pc EXCEPT ![p] = "done"]
    /\ UNCHANGED << links, now, req >>

(* ----------------------------- get_stats ------------------------------ *)

\* the dict get_stats returns, answered 200
StatsResponse(l) ==
    [NoResp EXCEPT !.status = HTTP_OK,
                   !.stats = [page |-> l.page, limit |-> l.limit,
                              total_links |-> l.total_links, links |-> l.links_stats]]

\* get_stats is called: page and limit are clamped, the offset is computed
\* and the links are counted.
StatsCountFor(p, page, limit) ==
    /\ pc[p] = "idle"
    /\ req' = [req EXCEPT ![p].page = page, ![p].limit = limit]
    /\ loc' = [loc EXCEPT ![p].page = ClampPage(page),
                          ![p].limit = ClampLimit(limit),
                          ![p].offset = PageOffset(ClampPage(page), ClampLimit(limit)),
                          ![p].total_links = Cardinality(links)]
    /\ pc' = [pc EXCEPT ![p] = "s_fetch"]
    /\ UNCHANGED << links, clicks, now, resp >>

\* get_stats is called with a page and a limit clients ask for
StatsCount(p) == \E page \in PageInputs, limit \in LimitInputs : StatsCountFor(p, page, limit)

\* get_stats is called directly, with any integers
StatsCountDirect(p) == \E page \in DirectPages, limit \in DirectLimits : StatsCountFor(p, page, limit)

\* get_stats is called for the page that is the caller's turn in a page walk
StatsCountPage(p) == \E limit \in 1..MaxLimit : StatsCountFor(p, p[2], limit)

\* GET /stats arrives with any integers: page below 1 or limit outside
\* 1..100 is answered 422 before get_global_stats runs.
GetGlobalStats(p) ==
    \E page \in DirectPages, limit \in DirectLimits :
        IF page < 1 \/ limit < 1 \/ limit > LimitCap
        THEN /\ pc[p] = "idle"
             /\ req' = [req EXCEPT ![p].page = page, ![p].limit = limit]
             /\ resp' = [resp EXCEPT ![p] = HTTPException(HTTP_UNPROCESSABLE)]
             /\ pc' = [pc EXCEPT ![p] = "done"]
             /\ UNCHANGED << links, clicks, now, loc >>
        ELSE StatsCountFor(p, page, limit)

\* The page of links is fetched; with no link in it the result is returned.
\* PostgreSQL refuses a negative LIMIT or OFFSET, and the error leaves
\* get_stats as an exception.
StatsFetch(p) ==
    /\ pc[p] = "s_fetch"
    /\ IF loc[p].limit < 0 \/ loc[p].offset < 0
       THEN /\ resp' = [resp EXCEPT ![p] = ServerError]
            /\ pc' = [pc EXCEPT ![p] = "done"]
            /\ loc' = loc
       ELSE \E ordered \in OrderedByCreatedAtDesc(links) :
            LET rows == OffsetLimit(ordered, loc[p].offset, loc[p].limit) IN
            /\ loc' = [loc EXCEPT ![p].rows = rows]
            /\ IF rows = << >>
               THEN /\ resp' = [resp EXCEPT ![p] = StatsResponse(loc[p])]
                    /\ pc' = [pc EXCEPT ![p] = "done"]
               ELSE /\ resp' = resp
                    /\ pc' = [pc EXCEPT ![p] = "s_clicks"]
    /\ UNCHANGED << links, clicks, now, req >>

\* the link the loop is at
CurrentLink(p) == loc[p].rows[Len(loc[p].links_stats) + 1]

\* The clicks of the current link are counted.
StatsCountClicks(p) ==
    /\ pc[p] = "s_clicks"
    /\ loc' = [loc EXCEPT ![p].total_clicks = CountClicks(CurrentLink(p).id)]
    /\ pc' = [pc EXCEPT ![p] = "s_monthly"]
    /\ UNCHANGED << links, clicks, now, req, resp >>

\* The monthly query runs and the link's entry is appended; after the last
\* link the result is returned.
StatsMonthly(p) ==
    /\ pc[p] = "s_monthly"
    /\ LET entry == LinkStats(CurrentLink(p), loc[p].total_clicks, MonthlyData(CurrentLink(p).id))
           after == [loc[p] EXCEPT !.links_stats = Append(@, entry)]
       IN  /\ loc' = [loc EXCEPT ![p] = after]
           /\ IF Len(after.links_stats) = Len(after.rows)
              THEN /\ resp' = [resp EXCEPT ![p] = StatsResponse(after)]
                   /\ pc' = [pc EXCEPT ![p] = "done"]
              ELSE /\ resp' = resp
                   /\ pc' = [pc EXCEPT ![p] = "s_clicks"]
    /\ UNCHANGED << links, clicks, now, req >>

(* --------------------------- specifications ---------------------------- *)

NextCreate ==
    \/ \E p \in Creators : CreateLookup(p)
    \/ \E p \in Creators : CreateAttempt(p)

NextRedirect ==
    \/ \E p \in Visitors : RedirectLookup(p)
    \/ \E p \in Visitors : RedirectResume(p)

NextStats ==
    \/ \E p \in Readers : StatsCount(p)
    \/ \E p \in Readers : StatsFetch(p)
    \/ \E p \in Readers : StatsCountClicks(p)
    \/ \E p \in Readers : StatsMonthly(p)

\* get_stats called directly
NextDirect ==
    \/ \E p \in Readers : StatsCountDirect(p)
    \/ \E p \in Readers : StatsFetch(p)
    \/ \E p \in Readers : StatsCountClicks(p)
    \/ \E p \in Readers : StatsMonthly(p)

\* one POST /links and one GET /stats request as they reach the transport
\* layer, valid or not
NextValidate ==
    \/ \E p \in { << "create", 1 >> } : PostLink(p)
    \/ \E p \in { << "create", 1 >> } : CreateAttempt(p)
    \/ \E p \in Readers : GetGlobalStats(p)
    \/ \E p \in Readers : StatsFetch(p)
    \/ \E p \in Readers : StatsCountClicks(p)
    \/ \E p \in Readers : StatsMonthly(p)

\* one POST /links request, one redirect and one GET /stats request
NextHistory ==
    \/ \E p \in { << "create", 1 >> } : CreateLookup(p)
    \/ \E p \in { << "create", 1 >> } : CreateAttempt(p)
    \/ \E p \in { << "redirect", 1 >> } : RedirectLookup(p)
    \/ \E p \in { << "redirect", 1 >> } : RedirectResume(p)
    \/ NextStats

\* GET /stats requests that walk the pages
NextWalk ==
    \/ \E p \in Walkers : StatsCountPage(p)
    \/ \E p \in Walkers : StatsFetch(p)
    \/ \E p \in Walkers : StatsCountClicks(p)
    \/ \E p \in Walkers : StatsMonthly(p)

\* every kind of request is served, from the empty database
Next == NextCreate \/ NextRedirect \/ NextStats \/ Tick
Spec == Init /\ [][Next]_vars

\* only POST /links requests are served, from the empty database
SpecCreate == Init /\ [][NextCreate \/ Tick]_vars

\* only GET /{short_code} requests are served, from a database with links
SpecRedirect == InitSeeded /\ [][NextRedirect \/ Tick]_vars

\* a GET /stats request is served while visitors are redirected, from a
\* database with links
SpecStats == InitSeeded /\ [][NextRedirect \/ NextStats \/ Tick]_vars

\* get_stats is called directly on a database with links, and nothing is
\* written meanwhile
SpecDirect == InitSeeded /\ [][NextDirect]_vars

\* a POST /links and a GET /stats request with any body and any parameters,
\* served from a database with links
SpecValidate == InitSeeded /\ [][NextValidate]_vars

\* requests of every kind are served side by side, from a database with at
\* most one link
SpecHistory == InitHistory /\ [][NextHistory]_vars

\* the statistics are read page by page from a database with links, and
\* nothing is written meanwhile
SpecWalk == InitSeeded /\ [][NextWalk]_vars

\* only POST /links requests are served while the clock stands still
SpecRetry == Init /\ [][NextCreate]_vars

\* the same while the clock stands still
SpecClicks == InitSeeded /\ [][NextRedirect \/ NextStats]_vars

\* a GET /stats request is served from a database with links, and nothing
\* is written meanwhile
SpecPages == InitSeeded /\ [][NextStats]_vars

(* ------------------------------ properties ----------------------------- *)

Returned(p) == pc[p] = "done" /\ resp[p].status \in { HTTP_OK, HTTP_CREATED }

\* C1: a create_link call made after an earlier call for the same URL has
\* returned gives the same short_code with is_new = False, and adds no row.
C1_IdempotentCreate ==
    [][\A p, q \in Creators :
          ( /\ pc[p] = "idle" /\ pc'[p] # "idle"
            /\ Returned(q)
            /\ req'[p].target_url = req[q].target_url )
          => ( /\ pc'[p] = "done"
               /\ loc'[p].is_new = FALSE
               /\ loc'[p].link.short_code = loc[q].link.short_code
               /\ resp'[p].link.short_code = resp[q].link.short_code
               /\ links' = links )]_vars

\* C1 witness: two sequential calls for one URL, the first created the link
\* and the second returned it.
C1_Witness ==
    \E p, q \in Creators :
        /\ p # q /\ Returned(p) /\ Returned(q)
        /\ req[p].target_url = req[q].target_url
        /\ loc[q].is_new /\ ~loc[p].is_new
        /\ loc[p].link.short_code = loc[q].link.short_code

\* C2: a create_link call whose insert loses the uniqueness race on its
\* target_url completes successfully with the existing link.
C2_RaceAbsorbed ==
    [][\A p \in Creators :
          ( /\ pc[p] = "c_insert" /\ pc'[p] = "done"
            /\ \E l \in links : l.target_url = req[p].target_url )
          => ( /\ resp'[p].status \in { HTTP_OK, HTTP_CREATED }
               /\ \E l \in links : /\ l.target_url = req[p].target_url
                                    /\ resp'[p].link.short_code = l.short_code )]_vars

\* C3: no two rows of links share a target_url.
C3_UniqueTargetUrl ==
    \A l1, l2 \in links : l1.target_url = l2.target_url => l1 = l2

\* C3 witness: two calls for one URL both passed the pre-check, one
\* committed, and the other's insert was rejected.
C3_Witness ==
    \E p, q \in Creators :
        /\ p # q /\ req[p].target_url = req[q].target_url
        /\ Returned(q) /\ loc[q].is_new
        /\ pc[p] = "c_insert" /\ loc[p].attempts > 0

\* C4: no two rows of links share a short_code, and calls that returned
\* links for distinct URLs returned distinct short_codes.
C4_UniqueShortCode ==
    /\ \A l1, l2 \in links : l1.short_code = l2.short_code => l1 = l2
    /\ \A p, q \in Creators :
          ( Returned(p) /\ Returned(q) /\ req[p].target_url # req[q].target_url )
          => resp[p].link.short_code # resp[q].link.short_code

\* C4 witness: two links for distinct URLs, the second created after the
\* generator first returned the code already in use.
C4_Witness ==
    \E p, q \in Creators :
        /\ Returned(p) /\ Returned(q)
        /\ req[p].target_url # req[q].target_url
        /\ loc[p].is_new /\ loc[q].is_new /\ loc[p].attempts > 0
        /\ Cardinality(links) > 1

ClicksOf(store, link_id) == { c \in store : c.link_id = link_id }

\* C5: a redirect of a known code is not answered 404; it is answered 302
\* with the target_url stored for the code, adds exactly one click for that
\* link, and changes neither the other links' clicks nor the links.
C5_RedirectKnown ==
    [][\A p \in Visitors :
          /\ ( /\ pc[p] = "idle" /\ pc'[p] # "idle"
               /\ \E l \in links : l.short_code = req'[p].short_code )
             => ( pc'[p] = "r_fraud" /\ links' = links /\ clicks' = clicks )
          /\ ( pc[p] = "r_fraud" /\ pc'[p] = "done" )
             => \E l \in links :
                   /\ l.short_code = req[p].short_code
                   /\ resp'[p].status = HTTP_FOUND
                   /\ resp'[p].location = l.target_url
                   /\ clicks \subseteq clicks'
                   /\ Cardinality(ClicksOf(clicks', l.id)) = Cardinality(ClicksOf(clicks, l.id)) + 1
                   /\ \A o \in links : o # l => ClicksOf(clicks', o.id) = ClicksOf(clicks, o.id)
                   /\ Cardinality(clicks') = Cardinality(clicks) + 1
                   /\ links' = links]_vars

\* C5 witness: a visitor was redirected while another link had a click.
C5_Witness ==
    \E p \in Visitors : \E l, o \in links :
        /\ pc[p] = "done" /\ resp[p].status = HTTP_FOUND
        /\ l.short_code = req[p].short_code /\ resp[p].location = l.target_url
        /\ o # l
        /\ Cardinality(ClicksOf(clicks, l.id)) = 1
        /\ Cardinality(ClicksOf(clicks, o.id)) = 1

\* C6: a redirect of a code no link has is answered 404 at once, without
\* the fraud check, and changes neither links nor clicks.
C6_RedirectUnknown ==
    [][\A p \in Visitors :
          ( /\ pc[p] = "idle" /\ pc'[p] # "idle"
            /\ \A l \in links : l.short_code # req'[p].short_code )
          => ( /\ pc'[p] = "done"
               /\ resp'[p].status = HTTP_NOT_FOUND
               /\ loc'[p] = loc[p]
               /\ links' = links /\ clicks' = clicks )]_vars

\* C6 witness: a visitor got 404 from a database that holds links.
C6_Witness ==
    \E p \in Visitors :
        /\ pc[p] = "done" /\ resp[p].status = HTTP_NOT_FOUND
        /\ links # {} /\ clicks = {}
        /\ \A l \in links : l.short_code # req[p].short_code

\* C7: a click is inserted only by a request that has resumed from its
\* fraud check with a pass, never by one that has not yet awaited it; a
\* request whose check failed is answered 403 and inserts no click.
C7_ClickAfterFraudCheck ==
    [][/\ clicks' # clicks
          => \E p \in Visitors :
                /\ pc[p] = "r_fraud" /\ pc'[p] = "done" /\ loc'[p].is_valid
                /\ resp'[p].status = HTTP_FOUND
                /\ \A c \in clicks' \ clicks : c.link_id = loc[p].link.id
       /\ \A p \in Visitors :
             ( pc[p] = "r_fraud" /\ pc'[p] = "done" /\ ~loc'[p].is_valid )
             => ( resp'[p].status = HTTP_FORBIDDEN /\ clicks' = clicks )]_vars

\* C7 witness: one visitor's click is recorded after its check passed while
\* another visitor, still suspended in its check, has recorded none.
C7_Witness ==
    \E p, q \in Visitors :
        /\ pc[p] = "done" /\ resp[p].status = HTTP_FOUND /\ loc[p].is_valid
        /\ pc[q] = "r_fraud" /\ ~loc[q].is_valid
        /\ Cardinality(clicks) = 1

\* the successful redirects to a link so far: the visitors answered 302 with
\* its target_url
Redirected(link) ==
    Cardinality({ q \in Visitors : /\ pc[q] = "done"
                                   /\ resp[q].status = HTTP_FOUND
                                   /\ resp[q].location = link.target_url })

\* C8: the total_clicks get_stats counts for a link is the number of click
\* rows of the link, which is the number N of successful redirects to it so
\* far; the entry reports that count and earnings of 5 N hundredths.
C8_ExactClickCount ==
    [][\A p \in Readers :
          /\ ( pc[p] = "s_clicks" /\ pc'[p] = "s_monthly" )
             => LET link == loc[p].rows[Len(loc[p].links_stats) + 1] IN
                /\ loc'[p].total_clicks = Cardinality({ c \in clicks : c.link_id = link.id })
                /\ loc'[p].total_clicks = Redirected(link)
          /\ ( pc[p] = "s_monthly" /\ pc'[p] # "s_monthly" )
             => LET link == loc[p].rows[Len(loc[p].links_stats) + 1]
                    entry == loc'[p].links_stats[Len(loc'[p].links_stats)]
                IN  /\ Len(loc'[p].links_stats) = Len(loc[p].links_stats) + 1
                    /\ entry.short_code = link.short_code
                    /\ entry.total_clicks = loc[p].total_clicks
                    /\ entry.total_earnings = 5 * loc[p].total_clicks
          /\ pc'[p] = "done" => resp'[p].stats.links = loc'[p].links_stats]_vars

\* C8 witness: after two redirects to a link, get_stats reports 2 clicks and
\* earnings of 0.10 for it.
C8_Witness ==
    \E p \in Readers : \E i \in 1..Len(resp[p].stats.links) : \E l \in links :
        /\ pc[p] = "done"
        /\ l.short_code = resp[p].stats.links[i].short_code
        /\ Redirected(l) = 2
        /\ resp[p].stats.links[i].total_clicks = 2
        /\ resp[p].stats.links[i].total_earnings = 10
        /\ Cardinality(links) > 1

RECURSIVE SumClicks(_)
SumClicks(breakdown) ==
    IF breakdown = << >> THEN 0
    ELSE breakdown[1].clicks + SumClicks(Tail(breakdown))

\* C9: in every entry get_stats has built, the clicks of the monthly
\* breakdown sum to total_clicks and the months are strictly ascending.
C9_MonthlySum ==
    \A p \in Readers : \A i \in 1..Len(loc[p].links_stats) :
        LET entry == loc[p].links_stats[i] IN
        /\ SumClicks(entry.monthly_breakdown) = entry.total_clicks
        /\ \A j, k \in 1..Len(entry.monthly_breakdown) :
              j < k => StrLess(entry.monthly_breakdown[j].month, entry.monthly_breakdown[k].month)

\* C10: with n links and nothing written meanwhile, get_stats(p, L) with
\* p >= 1 and 1 <= L <= 100 returns min(L, max(0, n - (p - 1) L)) entries and
\* total_links = n.
C10_PageWindow ==
    \A p \in Readers :
        ( pc[p] = "done" /\ req[p].page >= 1 /\ req[p].limit \in 1..100 )
        => LET r == resp[p].stats
               n == Cardinality(links)
               past == (req[p].page - 1) * req[p].limit
           IN  /\ resp[p].status = HTTP_OK
               /\ r.total_links = n
               /\ Len(r.links) = Min(req[p].limit, Max(0, n - past))
               /\ ( n = 0 => r.links = << >> )

\* C10 witness: page 2 of two links with limit 1 holds one link.
C10_Witness ==
    \E p \in Readers :
        /\ pc[p] = "done" /\ req[p].page = 2 /\ req[p].limit = 1
        /\ Cardinality(links) = 2
        /\ resp[p].stats.total_links = 2
        /\ Len(resp[p].stats.links) = 1

\* C11: POST /links answers 201 exactly when the request inserted a new Link
\* row and 200 when its URL already had a link, which it returns without
\* inserting; at most one request per target URL is answered 201.
C11_CreatedAtMostOnce ==
    [][ /\ \A p \in Creators :
            resp'[p] # resp[p] =>
                /\ (resp'[p].status = HTTP_CREATED) <=>
                       (\E l \in links' \ links :
                           /\ l.target_url = req'[p].target_url
                           /\ resp'[p].link = l)
                /\ (pc[p] = "idle" /\ \E l \in links : l.target_url = req'[p].target_url)
                       => resp'[p].status = HTTP_OK
                /\ (resp'[p].status = HTTP_OK) =>
                       /\ links' = links
                       /\ resp'[p].link \in links
                       /\ resp'[p].link.target_url = req'[p].target_url
        /\ links' # links =>
                \E p \in Creators : resp'[p] # resp[p] /\ resp'[p].status = HTTP_CREATED
        /\ \A p, q \in Creators :
                ( /\ p # q
                  /\ resp'[p].status = HTTP_CREATED
                  /\ resp'[q].status = HTTP_CREATED )
                => req'[p].target_url # req'[q].target_url ]_vars

\* two requests for one URL answered, one 201 and the other 200
C11_Witness ==
    \E p, q \in Creators :
        /\ pc[p] = "done" /\ pc[q] = "done"
        /\ req[p].target_url = req[q].target_url
        /\ resp[p].status = HTTP_CREATED
        /\ resp[q].status = HTTP_OK

\* C12: create_link makes at most max_attempts insert attempts and its loop
\* cannot run for ever: every turn that does not end the call adds one to a
\* count of failures that stays below max_attempts while the loop runs.  A
\* failed attempt leaves table links as it was and shows the caller nothing;
\* the max_attempts-th failure ends the call with an error, not with a link
\* or an empty success.
C12_BoundedRetry ==
    [][\A p \in Creators :
          /\ loc'[p].attempts <= max_attempts
          /\ pc'[p] = "c_insert" => loc'[p].attempts < max_attempts
          /\ (pc[p] = "c_insert" /\ << pc'[p], loc'[p] >> # << pc[p], loc[p] >>)
                => \/ pc'[p] = "done"
                   \/ loc'[p].attempts = loc[p].attempts + 1
          /\ (pc[p] = "c_insert" /\ loc'[p].attempts # loc[p].attempts)
                => /\ loc'[p].attempts = loc[p].attempts + 1
                   /\ links' = links
                   /\ IF loc'[p].attempts = max_attempts
                      THEN /\ pc'[p] = "done"
                           /\ resp'[p].status = HTTP_SERVER_ERROR
                           /\ resp'[p].link = NoLink
                      ELSE /\ pc'[p] = "c_insert"
                           /\ resp'[p] = resp[p] ]_vars

\* a call whose max_attempts attempts all failed
C12_Witness ==
    \E p \in Creators :
        /\ pc[p] = "done"
        /\ loc[p].attempts = max_attempts
        /\ resp[p].status = HTTP_SERVER_ERROR
        /\ links # {}

\* the 36 symbols a-z0-9, written out
LowerAlphaNum ==
    { "a", "b", "c", "d", "e", "f", "g", "h", "i", "j", "k", "l", "m",
      "n", "o", "p", "q", "r", "s", "t", "u", "v", "w", "x", "y", "z",
      "0", "1", "2", "3", "4", "5", "6", "7", "8", "9" }

\* C15: in every reachable state the short_code of every Link row is exactly
\* 6 characters long, each of them one of the 36 symbols a-z0-9.
C15_ShortCodeShape ==
    /\ Cardinality(LowerAlphaNum) = 36
    /\ Len(characters) = 36
    /\ \A k \in 1..Len(characters) : characters[k] \in LowerAlphaNum
    /\ \A l \in links :
          /\ Len(l.short_code) = 6
          /\ \A i \in 1..Len(l.short_code) : l.short_code[i] \in LowerAlphaNum

\* two links created by requests, with codes that hold letters and digits
C15_Witness ==
    \E p, q \in Creators :
        /\ p # q
        /\ resp[p].status = HTTP_CREATED /\ resp[p].link \in links
        /\ resp[q].status = HTTP_CREATED /\ resp[q].link \in links
        /\ \E i, j \in 1..Len(resp[p].link.short_code) :
              /\ resp[p].link.short_code[i] \in { "a", "b", "m", "r", "w" }
              /\ resp[p].link.short_code[j] \in { "0", "1", "6", "8" }

\* the short codes stored in table links
UsedCodes == { l.short_code : l \in links }

\* the next attempt of p's retry loop can succeed / can fail
CanSucceed(p) == ENABLED (CreateAttempt(p) /\ links' # links)
CanFail(p) == ENABLED (CreateAttempt(p) /\ loc'[p].attempts # loc[p].attempts)

\* C16: while create_link loops for a URL that no link has, an attempt whose
\* generated code is unused succeeds and an attempt fails only on a code in
\* use; after k <= 9 failed attempts the successful attempt answers with
\* is_new = True and adds exactly one row, carrying the requested target_url
\* and a code no link had; a failed attempt leaves no row and changes
\* nothing the caller sees.
C16_CollisionRetry ==
    /\ [](\A p \in Creators :
            ( /\ pc[p] = "c_insert"
              /\ \A l \in links : l.target_url # req[p].target_url )
            => /\ (\E d \in RandomDraws : generate_short_code(d) \notin UsedCodes)
                     <=> CanSucceed(p)
               /\ (\E d \in RandomDraws : generate_short_code(d) \in UsedCodes)
                     <=> CanFail(p))
    /\ [][\A p \in Creators :
          /\ (pc[p] = "c_insert" /\ pc'[p] = "done" /\ resp'[p].status # HTTP_SERVER_ERROR)
             => /\ loc[p].attempts <= 9
                /\ loc'[p].is_new = TRUE
                /\ resp'[p].status = HTTP_CREATED
                /\ \E row \in links' \ links :
                      /\ links' = links \cup { row }
                      /\ row.target_url = req[p].target_url
                      /\ row.short_code \notin UsedCodes
                      /\ resp'[p] = [NoResp EXCEPT !.status = HTTP_CREATED, !.link = row]
          /\ (pc[p] = "c_insert" /\ pc'[p] = "c_insert" /\ loc'[p] # loc[p])
             => /\ links' = links
                /\ resp'[p] = resp[p]
                /\ loc'[p] = [loc[p] EXCEPT !.attempts = @ + 1] ]_vars

\* a call that succeeded after max_attempts - 1 collisions
C16_Witness ==
    \E p \in Creators :
        /\ pc[p] = "done"
        /\ resp[p].status = HTTP_CREATED
        /\ loc[p].attempts = max_attempts - 1
        /\ resp[p].link \in links
        /\ Cardinality(links) > 1

\* C13: every direct call of get_stats, whatever integers page and limit are,
\* returns a result whose page is at least 1 and whose limit lies in 1..100,
\* with no more link entries than that limit.
C13_DirectCallRange ==
    \A p \in Readers :
        pc[p] = "done" =>
            /\ resp[p].status = HTTP_OK
            /\ resp[p].stats.page >= 1
            /\ resp[p].stats.limit \in 1..100
            /\ Len(resp[p].stats.links) <= resp[p].stats.limit

\* C17: for every integer page and limit get_stats works with page =
\* max(page, 1), limit = min(limit, 100) and offset = (that page - 1) * that
\* limit, and reports that page and that limit in its result; values in
\* range are reported as they were passed.
C17_ClampFunction ==
    \A p \in Readers :
        /\ pc[p] # "idle" =>
              /\ loc[p].page = Max(req[p].page, 1)
              /\ loc[p].limit = Min(req[p].limit, 100)
              /\ loc[p].offset = (loc[p].page - 1) * loc[p].limit
        /\ (pc[p] = "done" /\ resp[p].status = HTTP_OK) =>
              /\ resp[p].stats.page = Max(req[p].page, 1)
              /\ resp[p].stats.limit = Min(req[p].limit, 100)
              /\ (req[p].page >= 1 /\ req[p].limit \in 1..100) =>
                    /\ resp[p].stats.page = req[p].page
                    /\ resp[p].stats.limit = req[p].limit

\* results for a page below 1, for a limit above 100 and for values in range
C17_Witness ==
    \E p \in Readers :
        /\ pc[p] = "done"
        /\ resp[p].status = HTTP_OK
        /\ \/ req[p].page < 1 /\ req[p].limit > 100 /\ resp[p].stats.links # << >>
           \/ req[p].page > 1 /\ req[p].limit = 1 /\ resp[p].stats.links # << >>

\* C14: a POST /links whose target_url is missing, empty, blank or without
\* http:// or https:// at its start, and a GET /stats with page < 1 or limit
\* outside 1..100, are answered 422 in a step that leaves tables links and
\* clicks unchanged, and nothing is done for them afterwards.
C14_RejectedMutateNothing ==
    [][ /\ \A p \in Creators :
            ( /\ pc[p] = "idle" /\ pc'[p] # "idle"
              /\ \/ ~req'[p].body.present
                 \/ req'[p].body.target_url = << >>
                 \/ \A i \in 1..Len(req'[p].body.target_url) : req'[p].body.target_url[i] = " "
                 \/ req'[p].body.target_url[1] \notin { "http://", "https://" } )
            => /\ resp'[p].status = 422
               /\ pc'[p] = "done"
               /\ links' = links /\ clicks' = clicks
        /\ \A p \in Readers :
            ( /\ pc[p] = "idle" /\ pc'[p] # "idle"
              /\ req'[p].page < 1 \/ req'[p].limit < 1 \/ req'[p].limit > 100 )
            => /\ resp'[p].status = 422
               /\ pc'[p] = "done"
               /\ links' = links /\ clicks' = clicks
        /\ \A p \in Creators \cup Readers :
            (pc[p] = "done" /\ resp[p].status = 422)
            => (pc'[p] = "done" /\ resp'[p] = resp[p] /\ loc'[p] = NoLoc) ]_vars

\* a POST /links and a GET /stats rejected while table links holds a row
C14_Witness ==
    /\ links # {}
    /\ \E p \in Creators :
          pc[p] = "done" /\ resp[p].status = 422 /\ req[p].body.target_url = << " " >> \o Url(1)
    /\ \E p \in Readers :
          pc[p] = "done" /\ resp[p].status = 422 /\ req[p].limit = 0

\* C18: in every step of every execution of create, redirect and stats
\* requests each Link row stays, with the short_code, target_url and
\* created_at it had, each Click row stays as it was, so no link's number of
\* Click rows decreases; a step of get_stats and the lookup of a short code
\* change no row at all.
C18_AppendOnly ==
    [][ /\ \A l \in links :
            \E k \in links' :
                /\ k.id = l.id
                /\ k.short_code = l.short_code
                /\ k.target_url = l.target_url
                /\ k.created_at = l.created_at
        /\ Cardinality({ l.id : l \in links' }) = Cardinality(links')
        /\ \A c \in clicks :
            \E d \in clicks' :
                d.id = c.id /\ d.link_id = c.link_id /\ d.clicked_at = c.clicked_at
        /\ Cardinality({ c.id : c \in clicks' }) = Cardinality(clicks')
        /\ \A l \in links :
            Cardinality({ c \in clicks' : c.link_id = l.id })
                >= Cardinality({ c \in clicks : c.link_id = l.id })
        /\ (\E p \in Readers : << pc'[p], loc'[p], resp'[p] >> # << pc[p], loc[p], resp[p] >>)
            => (links' = links /\ clicks' = clicks)
        /\ (\E p \in Visitors : pc[p] = "idle" /\ pc'[p] # "idle")
            => (links' = links /\ clicks' = clicks) ]_vars

\* a link was created beside an older one that has been clicked, and a
\* stats result was returned
C18_Witness ==
    /\ Cardinality(links) > 1
    /\ \E c \in clicks : \E l \in links : c.link_id = l.id /\ l.created_at < StartTime
    /\ \E p \in Creators : resp[p].status = HTTP_CREATED /\ loc[p].attempts > 0
    /\ \E p \in Readers : pc[p] = "done" /\ resp[p].stats.links # << >>

\* C20: every result get_stats returns, also one computed while create_link
\* commits, is consistent with its total: a result with link entries has
\* (page - 1) * limit + number of entries <= total_links, and a result with
\* total_links = 0 has no entries.
C20_ConsistentWithTotal ==
    \A p \in Readers :
        (pc[p] = "done" /\ resp[p].status = HTTP_OK) =>
            /\ resp[p].stats.links # << >> =>
                  (resp[p].stats.page - 1) * resp[p].stats.limit + Len(resp[p].stats.links)
                      <= resp[p].stats.total_links
            /\ resp[p].stats.total_links = 0 => resp[p].stats.links = << >>

\* the created_at of the link with a short code
CreatedAt(short_code) == (CHOOSE l \in links : l.short_code = short_code).created_at

\* the link entries of the page the i-th call of a walk returned
PageOf(i) == resp[<< "stats", i >>].stats.links

\* C19: with n links and no concurrent write, the results of get_stats for
\* pages 1..ceil(n / L) with one limit L hold every link in exactly one
\* place, in non-increasing created_at order within and across the pages,
\* also when links have equal created_at values.
C19_PageWalk ==
    \A L \in 1..MaxLimit :
        LET n == Cardinality(links)
            pages == 1..((n + L - 1) \div L)
        IN  (\A i \in pages :
                /\ pc[<< "stats", i >>] = "done"
                /\ resp[<< "stats", i >>].status = HTTP_OK
                /\ req[<< "stats", i >>].limit = L)
            => /\ \A l \in links :
                    Cardinality({ at \in pages \X (1..L) :
                                    /\ at[2] <= Len(PageOf(at[1]))
                                    /\ PageOf(at[1])[at[2]].short_code = l.short_code }) = 1
               /\ \A i, j \in pages :
                    \A a \in 1..Len(PageOf(i)), b \in 1..Len(PageOf(j)) :
                        (i < j \/ (i = j /\ a < b))
                        => CreatedAt(PageOf(i)[a].short_code) >= CreatedAt(PageOf(j)[b].short_code)

====
